---- MODULE Spec2Model ----
(***************************************************************************)
(* Model of TubeMaker.execute (src/subsurf_cyl.py), the operator that      *)
(* builds the vertex, face and UV buffers of a tube.  The buffers are      *)
(* Python lists, modelled as functions over 0 .. len-1.  Coordinates are   *)
(* modelled symbolically: a position is the pair <<ring, sample>> that     *)
(* the code computed it from, and "zero" is the allocation placeholder.    *)
(* Lengths (radii, depth) are integers in units of 0.001; the edge loop    *)
(* factor is a numerator over FacDen.                                      *)
(***************************************************************************)
EXTENDS Integers, Sequences, FiniteSets, TLC

\* ---------------------------------------------------------------- bounds
MaxSectors == 8
MaxMilli == 1
FacDen == 2

\* ------------------------------------------------ property declarations
MinSectors == 3
MinRadius == 1
MinDepth == 1

CapFaceTypes == {"NGON", "QUAD", "TRI", "NONE"}

\* A property assignment below the declared hard minimum is clamped.
ClampNone(v, lo) == v
ClampMin(v, lo) == IF v < lo THEN lo ELSE v

VARIABLES
    req,            \* the values the host asked for, before clamping
    self,           \* the operator's properties
    pc,             \* position inside execute
    sectors,
    cap,            \* cap_is_* and use_* booleans
    v_idx,          \* vertex group offsets
    len_vs,
    vs,
    loop_idx,       \* face group offsets
    len_loop_idcs,
    v_idcs,
    mesh,           \* what from_pydata / validate handed to the host
    vt_idx,         \* UV group offsets
    len_vts,
    vts,
    vt_idcs,
    loop_uvs        \* per face, the UVs assigned to its loops

vars == << req, self, pc, sectors, cap, v_idx, len_vs, vs, loop_idx,
           len_loop_idcs, v_idcs, mesh, vt_idx, len_vts, vts, vt_idcs,
           loop_uvs >>

\* ------------------------------------------------------- list helpers
\* [x] * n
Alloc(n, x) == [p \in 0 .. (n - 1) |-> x]

\* Python list indexing: 0 .. n-1, and -n .. -1 counted from the end.
PyIdxOk(n, i) == (0 - n) <= i /\ i < n
PyIdx(n, i) == IF i < 0 THEN i + n ELSE i

\* A sequence of list assignments buf[slot] = value, in program order;
\* the first slot outside the list raises IndexError and stops the run,
\* the assignments made before it stay in the list.
ApplyWrites(buf, ws) ==
    LET n    == Cardinality(DOMAIN buf)
        bad  == {q \in 1 .. Len(ws) : ~PyIdxOk(n, ws[q][1])}
        stop == IF bad = {} THEN Len(ws) + 1
                ELSE CHOOSE q \in bad : \A r \in bad : q <= r
        last(p) == {q \in 1 .. (stop - 1) :
                      /\ PyIdx(n, ws[q][1]) = p
                      /\ \A r \in (q + 1) .. (stop - 1) :
                            PyIdx(n, ws[r][1]) # p}
    IN [buf |-> [p \in DOMAIN buf |->
                   IF last(p) = {} THEN buf[p]
                   ELSE ws[CHOOSE q \in last(p) : TRUE][2]],
        ok  |-> bad = {}]

\* The writes of "for i in range(0, n)" whose body makes m assignments,
\* numbered q = 1 .. n*m in program order: write q is assignment
\* LoopC(q, m) of iteration LoopI(q, m).
LoopI(q, m) == (q - 1) \div m
LoopC(q, m) == ((q - 1) % m) + 1

ZeroVec == << "zero", 0 >>
ZeroFace == << 0, 0, 0, 0 >>

\* --------------------------------------------------- Parameter flags
NoFlags ==
    [cap_is_none |-> FALSE, cap_is_ngon |-> FALSE, cap_is_quad |-> FALSE,
     cap_is_tri |-> FALSE, use_center_spoke |-> FALSE, use_caps |-> FALSE,
     use_edge_loops |-> FALSE]

UseEdgeLoopsClosed(fac) == fac >= 0 /\ fac <= FacDen
UseEdgeLoops(fac) == fac > 0 /\ fac < FacDen

QuadInfeasibleParityOnly(s) == s % 2 # 0
QuadInfeasible(s) == (s < 5) \/ (s % 2 # 0)

Normalize(s, type, fac) ==
    LET none  == type = "NONE"
        ngon0 == type = "NGON"
        quad0 == type = "QUAD"
        tri0  == type = "TRI"
        quad  == IF QuadInfeasible(s) THEN FALSE ELSE quad0
        ngon1 == IF QuadInfeasible(s) /\ ~none THEN TRUE ELSE ngon0
        tri   == IF s < 4 THEN FALSE ELSE tri0
        ngon  == IF s < 4 /\ ~none THEN TRUE ELSE ngon1
    IN [cap_is_none |-> none, cap_is_ngon |-> ngon, cap_is_quad |-> quad,
        cap_is_tri |-> tri,
        use_center_spoke |-> tri \/ quad,
        use_caps |-> tri \/ quad \/ ngon,
        use_edge_loops |-> UseEdgeLoops(fac)]

\* ------------------------------------------------ vertex offset plan
NoVIdx ==
    [btm_spoke |-> 0, btm_fan |-> 0, btm_ctrl |-> 0, btm_edge |-> 0,
     side_lwr_ctrl |-> 0, mid |-> 0, side_upp_ctrl |-> 0, top_edge |-> 0,
     top_ctrl |-> 0, top_fan |-> 0, top_spoke |-> 0]

Add(b, n) == IF b THEN n ELSE 0

PlanVIdx(s, c) ==
    LET el       == c.use_edge_loops
        elc      == c.use_edge_loops /\ c.use_caps
        btm_fan  == Add(c.use_center_spoke, 1)
        btm_ctrl == btm_fan + Add(elc, s)
        btm_edge == btm_ctrl + Add(elc, s)
        lwr      == btm_edge + s
        mid      == lwr + Add(el, s)
        upp      == mid + Add(el, s)
        top_edge == upp + Add(el, s)
        top_ctrl == top_edge + Add(el, s)
        top_fan  == top_ctrl + Add(el, s)
        top_spk  == top_fan + Add(c.use_caps \/ c.cap_is_none, s)
    IN [btm_spoke |-> 0, btm_fan |-> btm_fan, btm_ctrl |-> btm_ctrl,
        btm_edge |-> btm_edge, side_lwr_ctrl |-> lwr, mid |-> mid,
        side_upp_ctrl |-> upp, top_edge |-> top_edge, top_ctrl |-> top_ctrl,
        top_fan |-> top_fan, top_spoke |-> top_spk]

PlanLenVs(s, c) == PlanVIdx(s, c).top_spoke + Add(c.use_center_spoke, 1)

\* --------------------------------------------------- vertex writes
SpokeWrites(c, vi) ==
    IF c.use_center_spoke
    THEN << << vi.btm_spoke, << "btm_spoke", 0 >> >>,
            << vi.top_spoke, << "top_spoke", 0 >> >> >>
    ELSE << >>

EdgeRingBody(vi, i, k) ==
    IF k = 1 THEN << vi.btm_edge + i, << "btm_edge", i >> >>
             ELSE << vi.top_edge + i, << "top_edge", i >> >>

SideRingBody(vi, i, k) ==
    CASE k = 1 -> << vi.side_lwr_ctrl + i, << "side_lwr_ctrl", i >> >>
      [] k = 2 -> << vi.mid + i, << "mid", i >> >>
      [] OTHER -> << vi.side_upp_ctrl + i, << "side_upp_ctrl", i >> >>

CapRingBody(vi, i, k) ==
    CASE k = 1 -> << vi.btm_fan + i, << "btm_fan", i >> >>
      [] k = 2 -> << vi.btm_ctrl + i, << "btm_ctrl", i >> >>
      [] k = 3 -> << vi.top_ctrl + i, << "top_ctrl", i >> >>
      [] OTHER -> << vi.top_fan + i, << "top_fan", i >> >>

VertexWrites(s, c, vi) ==
    LET edge == [q \in 1 .. (s * 2) |->
                   EdgeRingBody(vi, LoopI(q, 2), LoopC(q, 2))]
        side == [q \in 1 .. (s * 3) |->
                   SideRingBody(vi, LoopI(q, 3), LoopC(q, 3))]
        capr == [q \in 1 .. (s * 4) |->
                   CapRingBody(vi, LoopI(q, 4), LoopC(q, 4))]
    IN SpokeWrites(c, vi)
       \o edge
       \o (IF c.use_edge_loops THEN side ELSE << >>)
       \o (IF c.use_edge_loops /\ c.use_caps THEN capr ELSE << >>)

\* -------------------------------------------------- face offset plan
CapCount(s, c) ==
    IF c.cap_is_ngon THEN 1
    ELSE IF c.cap_is_quad THEN s \div 2
    ELSE IF c.cap_is_tri THEN s
    ELSE 0

PlanLoopIdx(s, c) ==
    LET el        == c.use_edge_loops
        elc       == c.use_edge_loops /\ c.use_caps
        btm_mid   == CapCount(s, c)
        btm_ctrl  == btm_mid + Add(elc, s)
        lwr_ctrl  == btm_ctrl + Add(elc, s)
        lwr       == lwr_ctrl + Add(el, s)
        upp       == lwr + Add(el, s)
        upp_ctrl  == upp + Add(el, s)
        top_ctrl  == upp_ctrl + Add(elc, s)
        top_mid   == top_ctrl + Add(elc, s)
        top_fan   == top_mid + s
    IN [btm_fan |-> 0, btm_mid |-> btm_mid, btm_ctrl |-> btm_ctrl,
        side_lwr_ctrl |-> lwr_ctrl, side_lwr |-> lwr, side_upp |-> upp,
        side_upp_ctrl |-> upp_ctrl, top_ctrl |-> top_ctrl,
        top_mid |-> top_mid, top_fan |-> top_fan]

PlanLenLoopIdcs(s, c) == PlanLoopIdx(s, c).top_fan + CapCount(s, c)

\* ------------------------------------------------------- face writes
TriCapBodySameWinding(s, li, vi, i, k) ==
    LET j == (i + 1) % s IN
    IF k = 1
    THEN << li.btm_fan + i, << vi.btm_spoke, vi.btm_fan + i, vi.btm_fan + j >> >>
    ELSE << li.top_fan + i, << vi.top_spoke, vi.top_fan + i, vi.top_fan + j >> >>

TriCapBody(s, li, vi, i, k) ==
    LET j == (i + 1) % s IN
    IF k = 1
    THEN << li.btm_fan + i, << vi.btm_spoke, vi.btm_fan + j, vi.btm_fan + i >> >>
    ELSE << li.top_fan + i, << vi.top_spoke, vi.top_fan + i, vi.top_fan + j >> >>

QuadCapBody(s, li, vi, h, c) ==
    LET i == h + h
        j == (i + 1) % s
        k == (i + 2) % s
    IN IF c = 1
       THEN << li.btm_fan + h,
               << vi.btm_spoke, vi.btm_fan + k, vi.btm_fan + j, vi.btm_fan + i >> >>
       ELSE << li.top_fan + h,
               << vi.top_spoke, vi.top_fan + i, vi.top_fan + j, vi.top_fan + k >> >>

NgonBtmNatural(s, vi) ==
    [n \in 1 .. s |-> vi.btm_fan + (n - 1)]

NgonBtm(s, vi) ==
    [n \in 1 .. s |-> vi.btm_fan + s - 1 - (((n - 1) - 1) % s)]

NgonTop(s, vi) ==
    [n \in 1 .. s |-> vi.top_fan + (n - 1)]

NgonCapWrites(s, li, vi) ==
    << << li.btm_fan, NgonBtm(s, vi) >>, << li.top_fan, NgonTop(s, vi) >> >>

CapFaceWrites(s, c, li, vi) ==
    LET tri  == [q \in 1 .. (s * 2) |->
                   TriCapBody(s, li, vi, LoopI(q, 2), LoopC(q, 2))]
        quad == [q \in 1 .. ((s \div 2) * 2) |->
                   QuadCapBody(s, li, vi, LoopI(q, 2), LoopC(q, 2))]
    IN IF c.cap_is_tri THEN tri
       ELSE IF c.cap_is_quad THEN quad
       ELSE IF c.cap_is_ngon THEN NgonCapWrites(s, li, vi)
       ELSE << >>

\* A quad (lo[i], lo[j], hi[j], hi[i]) joining two rings.
Strip(lo, hi, i, j) == << lo + i, lo + j, hi + j, hi + i >>

CapBandBody(s, li, vi, i, k) ==
    LET j == (i + 1) % s IN
    CASE k = 1 -> << li.btm_mid + i, Strip(vi.btm_fan, vi.btm_ctrl, i, j) >>
      [] k = 2 -> << li.btm_ctrl + i, Strip(vi.btm_ctrl, vi.btm_edge, i, j) >>
      [] k = 3 -> << li.top_ctrl + i, Strip(vi.top_edge, vi.top_ctrl, i, j) >>
      [] OTHER -> << li.top_mid + i, Strip(vi.top_ctrl, vi.top_fan, i, j) >>

SideLoopBodySkipMid(s, li, vi, i, c) ==
    LET j == i + 1
        k == j % s
    IN CASE c = 1 -> << li.side_lwr_ctrl + i,
                        Strip(vi.btm_edge, vi.side_lwr_ctrl, i, k) >>
         [] c = 2 -> << li.side_lwr + i,
                        Strip(vi.side_lwr_ctrl, vi.side_upp_ctrl, i, k) >>
         [] c = 3 -> << li.side_upp + i,
                        Strip(vi.mid, vi.side_upp_ctrl, i, k) >>
         [] OTHER -> << li.side_upp_ctrl + i,
                        Strip(vi.side_upp_ctrl, vi.top_edge, i, k) >>

SideLoopBody(s, li, vi, i, c) ==
    LET j == i + 1
        k == j % s
    IN CASE c = 1 -> << li.side_lwr_ctrl + i,
                        Strip(vi.btm_edge, vi.side_lwr_ctrl, i, k) >>
         [] c = 2 -> << li.side_lwr + i,
                        Strip(vi.side_lwr_ctrl, vi.mid, i, k) >>
         [] c = 3 -> << li.side_upp + i,
                        Strip(vi.mid, vi.side_upp_ctrl, i, k) >>
         [] OTHER -> << li.side_upp_ctrl + i,
                        Strip(vi.side_upp_ctrl, vi.top_edge, i, k) >>

SidePlainBodyNoWrap(s, li, vi, i, c) ==
    << li.side_lwr_ctrl + i, Strip(vi.btm_edge, vi.top_edge, i, i + 1) >>

SidePlainBody(s, li, vi, i, c) ==
    LET j == i + 1
        k == j % s
    IN << li.side_lwr_ctrl + i, Strip(vi.btm_edge, vi.top_edge, i, k) >>

SideFaceWrites(s, c, li, vi) ==
    LET band  == [q \in 1 .. (s * 4) |->
                    CapBandBody(s, li, vi, LoopI(q, 4), LoopC(q, 4))]
        side  == [q \in 1 .. (s * 4) |->
                    SideLoopBody(s, li, vi, LoopI(q, 4), LoopC(q, 4))]
        plain == [q \in 1 .. s |->
                    SidePlainBody(s, li, vi, LoopI(q, 1), LoopC(q, 1))]
    IN IF c.use_edge_loops
       THEN (IF c.use_caps THEN band ELSE << >>) \o side
       ELSE plain

\* ------------------------------------------- from_pydata / validate
\* validate() drops a face that references a missing vertex, uses a
\* vertex twice, or uses the same vertex set as an earlier face.
VertSet(f) == {f[x] : x \in DOMAIN f}

FaceOk(f, n) ==
    /\ Len(f) >= 3
    /\ \A x \in DOMAIN f : f[x] >= 0 /\ f[x] < n
    /\ Cardinality(VertSet(f)) = Len(f)

Validate(faces, nf, nv) ==
    LET kept == {p \in 0 .. (nf - 1) :
                   /\ FaceOk(faces[p], nv)
                   /\ \A q \in 0 .. (p - 1) :
                         FaceOk(faces[q], nv)
                            => VertSet(faces[q]) # VertSet(faces[p])}
        nth(k) == CHOOSE p \in kept :
                     Cardinality({q \in kept : q < p}) = k - 1
    IN [k \in 1 .. Cardinality(kept) |-> faces[nth(k)]]

FromPydata(verts, nv, faces, nf) ==
    [made |-> TRUE, nverts |-> nv,
     faces |-> Validate(faces, nf, nv)]

\* --------------------------------------------------- UV offset plan
NoVtIdx ==
    [btm_strip |-> 0, top_strip |-> 0, side_lwr_ctrl |-> -1,
     mid_strip |-> -1, side_upp_ctrl |-> -1, btm_edge |-> -1,
     btm_ctrl |-> -1, btm_fan |-> -1, top_edge |-> -1, top_ctrl |-> -1,
     top_fan |-> -1, btm_spoke |-> -1, top_spoke |-> -1]

PlanLenVts(s, c) ==
    (s + 1) * 2
    + Add(c.use_edge_loops, (s + 1) * 3)
    + Add(c.use_caps, s * 2)
    + Add(c.use_caps /\ c.use_edge_loops, s * 4)
    + Add(c.use_caps /\ c.use_center_spoke, 2)

PlanVtIdx(s, c) ==
    LET sp1  == s + 1
        lv   == PlanLenVts(s, c)
        el   == c.use_edge_loops
        caps == c.use_caps
        elc  == c.use_caps /\ c.use_edge_loops
        spk  == c.use_caps /\ c.use_center_spoke
    IN [btm_strip     |-> 0,
        top_strip     |-> sp1,
        side_lwr_ctrl |-> IF el THEN sp1 * 2 ELSE -1,
        mid_strip     |-> IF el THEN sp1 * 3 ELSE -1,
        side_upp_ctrl |-> IF el THEN sp1 * 4 ELSE -1,
        btm_edge      |-> IF elc THEN sp1 * 5
                          ELSE IF caps THEN sp1 * 2 ELSE -1,
        btm_ctrl      |-> IF elc THEN sp1 * 5 + s ELSE -1,
        btm_fan       |-> IF elc THEN sp1 * 5 + s * 2
                          ELSE IF caps THEN sp1 * 2 ELSE -1,
        top_edge      |-> IF elc THEN sp1 * 5 + s * 3
                          ELSE IF caps THEN sp1 * 2 + s ELSE -1,
        top_ctrl      |-> IF elc THEN sp1 * 5 + s * 4 ELSE -1,
        top_fan       |-> IF elc THEN sp1 * 5 + s * 5
                          ELSE IF caps THEN sp1 * 2 + s ELSE -1,
        btm_spoke     |-> IF spk THEN lv - 2 ELSE -1,
        top_spoke     |-> IF spk THEN lv - 1 ELSE -1]

\* ---------------------------------------------------------- UV writes
ZeroUv == << "zero", 0 >>

VtStripBody(ti, j, k) ==
    IF k = 1 THEN << ti.btm_strip + j, << "btm_strip", j >> >>
             ELSE << ti.top_strip + j, << "top_strip", j >> >>

VtSideBody(ti, j, k) ==
    CASE k = 1 -> << ti.side_lwr_ctrl + j, << "side_lwr_ctrl", j >> >>
      [] k = 2 -> << ti.mid_strip + j, << "mid_strip", j >> >>
      [] OTHER -> << ti.side_upp_ctrl + j, << "side_upp_ctrl", j >> >>

VtSpokeWrites(c, ti) ==
    IF c.use_center_spoke
    THEN << << ti.btm_spoke, << "btm_spoke", 0 >> >>,
            << ti.top_spoke, << "top_spoke", 0 >> >> >>
    ELSE << >>

VtEdgeBody(ti, i, k) ==
    IF k = 1 THEN << ti.btm_edge + i, << "btm_edge", i >> >>
             ELSE << ti.top_edge + i, << "top_edge", i >> >>

VtCapRingBody(ti, i, k) ==
    CASE k = 1 -> << ti.btm_fan + i, << "btm_fan", i >> >>
      [] k = 2 -> << ti.btm_ctrl + i, << "btm_ctrl", i >> >>
      [] k = 3 -> << ti.top_ctrl + i, << "top_ctrl", i >> >>
      [] OTHER -> << ti.top_fan + i, << "top_fan", i >> >>

VtWrites(s, c, ti) ==
    LET strip == [q \in 1 .. ((s + 1) * 2) |->
                    VtStripBody(ti, LoopI(q, 2), LoopC(q, 2))]
        side  == [q \in 1 .. ((s + 1) * 3) |->
                    VtSideBody(ti, LoopI(q, 3), LoopC(q, 3))]
        edge  == [q \in 1 .. (s * 2) |->
                    VtEdgeBody(ti, LoopI(q, 2), LoopC(q, 2))]
        capr  == [q \in 1 .. (s * 4) |->
                    VtCapRingBody(ti, LoopI(q, 4), LoopC(q, 4))]
    IN strip
       \o (IF c.use_edge_loops THEN side ELSE << >>)
       \o (IF c.use_caps
           THEN VtSpokeWrites(c, ti)
                \o edge
                \o (IF c.use_edge_loops THEN capr ELSE << >>)
           ELSE << >>)

\* ----------------------------------------------------- UV face writes
VtTriCapBody(s, li, ti, i, k) ==
    LET j == (i + 1) % s IN
    IF k = 1
    THEN << li.btm_fan + i, << ti.btm_spoke, ti.btm_fan + j, ti.btm_fan + i >> >>
    ELSE << li.top_fan + i, << ti.top_spoke, ti.top_fan + i, ti.top_fan + j >> >>

VtQuadCapBody(s, li, ti, h, c) ==
    LET i == h + h
        j == (i + 1) % s
        k == (i + 2) % s
    IN IF c = 1
       THEN << li.btm_fan + h,
               << ti.btm_spoke, ti.btm_fan + k, ti.btm_fan + j, ti.btm_fan + i >> >>
       ELSE << li.top_fan + h,
               << ti.top_spoke, ti.top_fan + i, ti.top_fan + j, ti.top_fan + k >> >>

VtNgonBtmNatural(s, ti) ==
    [n \in 1 .. s |-> ti.btm_fan + (n - 1)]

VtNgonBtm(s, ti) ==
    [n \in 1 .. s |-> ti.btm_fan + s - 1 - (((n - 1) - 1) % s)]

VtNgonTop(s, ti) ==
    [n \in 1 .. s |-> ti.top_fan + (n - 1)]

VtNgonCapWrites(s, li, ti) ==
    << << li.btm_fan, VtNgonBtm(s, ti) >>, << li.top_fan, VtNgonTop(s, ti) >> >>

VtCapFaceWrites(s, c, li, ti) ==
    LET tri  == [q \in 1 .. (s * 2) |->
                   VtTriCapBody(s, li, ti, LoopI(q, 2), LoopC(q, 2))]
        quad == [q \in 1 .. ((s \div 2) * 2) |->
                   VtQuadCapBody(s, li, ti, LoopI(q, 2), LoopC(q, 2))]
    IN IF c.cap_is_tri THEN tri
       ELSE IF c.cap_is_quad THEN quad
       ELSE IF c.cap_is_ngon THEN VtNgonCapWrites(s, li, ti)
       ELSE << >>

VtCapBandBody(s, li, ti, i, k) ==
    LET j == (i + 1) % s IN
    CASE k = 1 -> << li.btm_mid + i, Strip(ti.btm_fan, ti.btm_ctrl, i, j) >>
      [] k = 2 -> << li.btm_ctrl + i, Strip(ti.btm_ctrl, ti.btm_edge, i, j) >>
      [] k = 3 -> << li.top_ctrl + i, Strip(ti.top_edge, ti.top_ctrl, i, j) >>
      [] OTHER -> << li.top_mid + i, Strip(ti.top_ctrl, ti.top_fan, i, j) >>

VtSideLoopBody(s, li, ti, i, c) ==
    LET j == i + 1 IN
    CASE c = 1 -> << li.side_lwr_ctrl + i,
                     Strip(ti.btm_strip, ti.side_lwr_ctrl, i, j) >>
      [] c = 2 -> << li.side_lwr + i,
                     Strip(ti.side_lwr_ctrl, ti.mid_strip, i, j) >>
      [] c = 3 -> << li.side_upp + i,
                     Strip(ti.mid_strip, ti.side_upp_ctrl, i, j) >>
      [] OTHER -> << li.side_upp_ctrl + i,
                     Strip(ti.side_upp_ctrl, ti.top_strip, i, j) >>

VtSidePlainBodyWrap(s, li, ti, i, c) ==
    LET j == (i + 1) % s IN
    << li.side_lwr_ctrl + i, Strip(ti.btm_strip, ti.top_strip, i, j) >>

VtSidePlainBody(s, li, ti, i, c) ==
    LET j == i + 1 IN
    << li.side_lwr_ctrl + i, Strip(ti.btm_strip, ti.top_strip, i, j) >>

VtFaceWrites(s, c, li, ti) ==
    LET band  == [q \in 1 .. (s * 4) |->
                    VtCapBandBody(s, li, ti, LoopI(q, 4), LoopC(q, 4))]
        side  == [q \in 1 .. (s * 4) |->
                    VtSideLoopBody(s, li, ti, LoopI(q, 4), LoopC(q, 4))]
        plain == [q \in 1 .. s |->
                    VtSidePlainBody(s, li, ti, LoopI(q, 1), LoopC(q, 1))]
    IN VtCapFaceWrites(s, c, li, ti)
       \o (IF c.use_edge_loops
           THEN (IF c.use_caps THEN band ELSE << >>) \o side
           ELSE plain)

\* ------------------------------------------------ UV loop assignment
\* loop[uv_layer].uv = vts[faceuvidcs[i]] for loop i of the face at
\* face.index; a tuple or list index out of range raises IndexError.
LoopUvOk(face, uvface, nvts) ==
    \A i \in 1 .. Len(face) :
        i <= Len(uvface) /\ PyIdxOk(nvts, uvface[i])

LoopUv(face, uvface, uvbuf, nvts) ==
    [i \in 1 .. Len(face) |-> uvbuf[PyIdx(nvts, uvface[i])]]

\* ------------------------------------------------------------- state
NoMesh == [made |-> FALSE, nverts |-> 0, faces |-> << >>]

Init ==
    /\ req \in [sectors : 1 .. MaxSectors,
                radius_btm : 0 .. MaxMilli,
                radius_top : 0 .. MaxMilli,
                depth : 0 .. MaxMilli]
    /\ \E type \in CapFaceTypes, fac \in 0 .. FacDen, uv \in BOOLEAN :
         self = [sectors |-> ClampMin(req.sectors, MinSectors),
                 radius_btm |-> ClampMin(req.radius_btm, MinRadius),
                 radius_top |-> ClampMin(req.radius_top, MinRadius),
                 depth |-> ClampMin(req.depth, MinDepth),
                 cap_face_type |-> type,
                 edge_loop_fac |-> fac,
                 calc_uvs |-> uv]
    /\ pc = "unpack"
    /\ sectors = 0
    /\ cap = NoFlags
    /\ v_idx = NoVIdx
    /\ len_vs = 0
    /\ vs = << >>
    /\ loop_idx = << >>
    /\ len_loop_idcs = 0
    /\ v_idcs = << >>
    /\ mesh = NoMesh
    /\ vt_idx = NoVtIdx
    /\ len_vts = 0
    /\ vts = << >>
    /\ vt_idcs = << >>
    /\ loop_uvs = << >>

\* Unpack the arguments and derive the topology booleans.
Unpack ==
    /\ pc = "unpack"
    /\ sectors' = self.sectors
    /\ cap' = Normalize(self.sectors, self.cap_face_type, self.edge_loop_fac)
    /\ pc' = "plan_vs"
    /\ UNCHANGED << req, self, v_idx, len_vs, vs, loop_idx, len_loop_idcs,
                    v_idcs, mesh, vt_idx, len_vts, vts, vt_idcs, loop_uvs >>

\* Vertex offsets, total length, allocation of vs.
PlanVs ==
    /\ pc = "plan_vs"
    /\ v_idx' = PlanVIdx(sectors, cap)
    /\ len_vs' = PlanLenVs(sectors, cap)
    /\ vs' = Alloc(PlanLenVs(sectors, cap), ZeroVec)
    /\ pc' = "fill_vs"
    /\ UNCHANGED << req, self, sectors, cap, loop_idx, len_loop_idcs,
                    v_idcs, mesh, vt_idx, len_vts, vts, vt_idcs, loop_uvs >>

\* Spokes, edge rings, side control rings, cap rings.
FillVs ==
    /\ pc = "fill_vs"
    /\ LET r == ApplyWrites(vs, VertexWrites(sectors, cap, v_idx)) IN
         /\ vs' = r.buf
         /\ pc' = IF r.ok THEN "plan_faces" ELSE "error"
    /\ UNCHANGED << req, self, sectors, cap, v_idx, len_vs, loop_idx,
                    len_loop_idcs, v_idcs, mesh, vt_idx, len_vts, vts,
                    vt_idcs, loop_uvs >>

\* Face offsets, total length, allocation of v_idcs.
PlanFaces ==
    /\ pc = "plan_faces"
    /\ loop_idx' = PlanLoopIdx(sectors, cap)
    /\ len_loop_idcs' = PlanLenLoopIdcs(sectors, cap)
    /\ v_idcs' = Alloc(PlanLenLoopIdcs(sectors, cap), ZeroFace)
    /\ pc' = "fill_caps"
    /\ UNCHANGED << req, self, sectors, cap, v_idx, len_vs, vs, mesh,
                    vt_idx, len_vts, vts, vt_idcs, loop_uvs >>

\* The central fan: triangles, quads or one n-gon per cap.
FillCaps ==
    /\ pc = "fill_caps"
    /\ LET r == ApplyWrites(v_idcs,
                            CapFaceWrites(sectors, cap, loop_idx, v_idx)) IN
         /\ v_idcs' = r.buf
         /\ pc' = IF r.ok THEN "fill_sides" ELSE "error"
    /\ UNCHANGED << req, self, sectors, cap, v_idx, len_vs, vs, loop_idx,
                    len_loop_idcs, mesh, vt_idx, len_vts, vts, vt_idcs,
                    loop_uvs >>

\* Cap control bands and side panels.
FillSides ==
    /\ pc = "fill_sides"
    /\ LET r == ApplyWrites(v_idcs,
                            SideFaceWrites(sectors, cap, loop_idx, v_idx)) IN
         /\ v_idcs' = r.buf
         /\ pc' = IF r.ok THEN "assemble" ELSE "error"
    /\ UNCHANGED << req, self, sectors, cap, v_idx, len_vs, vs, loop_idx,
                    len_loop_idcs, mesh, vt_idx, len_vts, vts, vt_idcs,
                    loop_uvs >>

\* from_pydata, validate, bmesh.from_mesh, face.smooth.
Assemble ==
    /\ pc = "assemble"
    /\ mesh' = FromPydata(vs, len_vs, v_idcs, len_loop_idcs)
    /\ pc' = IF self.calc_uvs THEN "plan_vts" ELSE "finish"
    /\ UNCHANGED << req, self, sectors, cap, v_idx, len_vs, vs, loop_idx,
                    len_loop_idcs, v_idcs, vt_idx, len_vts, vts, vt_idcs,
                    loop_uvs >>

\* UV offsets, total length, allocation of vts.
PlanVts ==
    /\ pc = "plan_vts"
    /\ len_vts' = PlanLenVts(sectors, cap)
    /\ vt_idx' = PlanVtIdx(sectors, cap)
    /\ vts' = Alloc(PlanLenVts(sectors, cap), ZeroUv)
    /\ pc' = "fill_vts"
    /\ UNCHANGED << req, self, sectors, cap, v_idx, len_vs, vs, loop_idx,
                    len_loop_idcs, v_idcs, mesh, vt_idcs, loop_uvs >>

\* Side strips, cap disks and spokes of the UV atlas.
FillVts ==
    /\ pc = "fill_vts"
    /\ LET r == ApplyWrites(vts, VtWrites(sectors, cap, vt_idx)) IN
         /\ vts' = r.buf
         /\ pc' = IF r.ok THEN "fill_vt_idcs" ELSE "error"
    /\ UNCHANGED << req, self, sectors, cap, v_idx, len_vs, vs, loop_idx,
                    len_loop_idcs, v_idcs, mesh, vt_idx, len_vts, vt_idcs,
                    loop_uvs >>

\* The UV faces, allocated to the face buffer's length.
FillVtIdcs ==
    /\ pc = "fill_vt_idcs"
    /\ LET r == ApplyWrites(Alloc(len_loop_idcs, ZeroFace),
                            VtFaceWrites(sectors, cap, loop_idx, vt_idx)) IN
         /\ vt_idcs' = r.buf
         /\ pc' = IF r.ok THEN "assign_uvs" ELSE "error"
    /\ UNCHANGED << req, self, sectors, cap, v_idx, len_vs, vs, loop_idx,
                    len_loop_idcs, v_idcs, mesh, vt_idx, len_vts, vts,
                    loop_uvs >>

\* Copy the UVs onto the loops of every face of the bmesh.
AssignUvs ==
    /\ pc = "assign_uvs"
    /\ LET nf == Len(mesh.faces)
           ok == \A p \in 1 .. nf :
                    /\ PyIdxOk(len_loop_idcs, p - 1)
                    /\ LoopUvOk(mesh.faces[p], vt_idcs[p - 1], len_vts)
       IN IF ok
          THEN /\ loop_uvs' = [p \in 1 .. nf |->
                                 LoopUv(mesh.faces[p], vt_idcs[p - 1],
                                        vts, len_vts)]
               /\ pc' = "finish"
          ELSE /\ loop_uvs' = loop_uvs
               /\ pc' = "error"
    /\ UNCHANGED << req, self, sectors, cap, v_idx, len_vs, vs, loop_idx,
                    len_loop_idcs, v_idcs, mesh, vt_idx, len_vts, vts,
                    vt_idcs >>

\* to_mesh, new object, link to the scene, return FINISHED.
Finish ==
    /\ pc = "finish"
    /\ pc' = "done"
    /\ UNCHANGED << req, self, sectors, cap, v_idx, len_vs, vs, loop_idx,
                    len_loop_idcs, v_idcs, mesh, vt_idx, len_vts, vts,
                    vt_idcs, loop_uvs >>

Next ==
    \/ Unpack \/ PlanVs \/ FillVs \/ PlanFaces \/ FillCaps \/ FillSides
    \/ Assemble \/ PlanVts \/ FillVts \/ FillVtIdcs \/ AssignUvs \/ Finish

Spec == Init /\ [][Next]_vars

\* =================================================================
\* Properties
\* =================================================================
Unpacked == pc # "unpack"
VsAllocated == pc \notin {"unpack", "plan_vs"}
FacesAllocated == pc \notin {"unpack", "plan_vs", "fill_vs", "plan_faces"}
FacesFilled ==
    pc \in {"assemble", "plan_vts", "fill_vts", "fill_vt_idcs",
            "assign_uvs", "finish", "done"}

FaceIndices(f) == {f[x] : x \in DOMAIN f}

\* C1: the length of the position buffer is the sum of the sizes of the
\* enabled vertex groups only: 2*sectors for the two edge rings, 3*sectors
\* iff edge loops, 4*sectors iff edge loops and caps, 2 iff center spoke.
C1_PositionCount ==
    VsAllocated =>
        /\ len_vs = 2 * sectors
                    + Add(cap.use_edge_loops, 3 * sectors)
                    + Add(cap.use_edge_loops /\ cap.use_caps, 4 * sectors)
                    + Add(cap.use_center_spoke, 2)
        /\ DOMAIN vs = 0 .. (len_vs - 1)

\* C2: whenever the face buffer has been filled and a mesh is produced,
\* every vertex index stored in every face is >= 0 and < len(vs).
C2_IndicesInRange ==
    FacesFilled =>
        \A p \in DOMAIN v_idcs :
            \A x \in DOMAIN v_idcs[p] :
                v_idcs[p][x] >= 0 /\ v_idcs[p][x] < len_vs

C2_Witness ==
    /\ pc = "done"
    /\ mesh.made
    /\ cap.use_caps /\ cap.use_edge_loops /\ ~cap.use_center_spoke
    /\ \E p \in DOMAIN v_idcs : (len_vs - 1) \in FaceIndices(v_idcs[p])

\* C3: an infeasible cap style is never surfaced as a failure: no write
\* into a buffer raises an index error and generation always completes.
C3_NeverFails == pc # "error"

\* C4: for a requested TRI the effective cap style is TRI whenever
\* sectors >= 4 (and only TRI: the QUAD rule does not touch it), NGON only
\* when sectors < 4, and an effective TRI cap has exactly sectors triangles.
C4_TriKept ==
    (Unpacked /\ self.cap_face_type = "TRI") =>
        /\ sectors >= 4 =>
             /\ cap.cap_is_tri /\ ~cap.cap_is_ngon /\ ~cap.cap_is_quad
             /\ CapCount(sectors, cap) = sectors
        /\ sectors < 4 =>
             cap.cap_is_ngon /\ ~cap.cap_is_tri /\ ~cap.cap_is_quad

\* C5: for a requested QUAD the effective cap style is QUAD exactly when
\* sectors is even and >= 5 and NGON otherwise; a kept QUAD cap is
\* sectors/2 quads, quad h using the spoke and fan samples 2h, 2h+1 and
\* (2h+2) mod sectors, so every fan vertex lies in at least one cap quad.
C5_QuadFaces ==
    LET half == sectors \div 2
        btm(h) == v_idcs[loop_idx.btm_fan + h]
        top(h) == v_idcs[loop_idx.top_fan + h]
    IN /\ loop_idx.btm_mid - loop_idx.btm_fan = half
       /\ len_loop_idcs - loop_idx.top_fan = half
       /\ \A h \in 0 .. (half - 1) :
            /\ btm(h) = << v_idx.btm_spoke,
                           v_idx.btm_fan + ((2 * h + 2) % sectors),
                           v_idx.btm_fan + 2 * h + 1,
                           v_idx.btm_fan + 2 * h >>
            /\ top(h) = << v_idx.top_spoke,
                           v_idx.top_fan + 2 * h,
                           v_idx.top_fan + 2 * h + 1,
                           v_idx.top_fan + ((2 * h + 2) % sectors) >>
       /\ \A i \in 0 .. (sectors - 1) :
            /\ \E h \in 0 .. (half - 1) :
                  (v_idx.btm_fan + i) \in FaceIndices(btm(h))
            /\ \E h \in 0 .. (half - 1) :
                  (v_idx.top_fan + i) \in FaceIndices(top(h))

C5_QuadKept ==
    (Unpacked /\ self.cap_face_type = "QUAD") =>
        /\ cap.cap_is_quad <=> (sectors % 2 = 0 /\ sectors >= 5)
        /\ cap.cap_is_ngon <=> ~cap.cap_is_quad
        /\ ~cap.cap_is_tri /\ ~cap.cap_is_none
        /\ (FacesFilled /\ cap.cap_is_quad) => C5_QuadFaces

C5_Witness ==
    /\ pc = "done"
    /\ self.cap_face_type = "QUAD"
    /\ cap.cap_is_quad
    /\ sectors = 8
    /\ Len(mesh.faces) = len_loop_idcs

\* C6: the face buffer length is sideCount + bandCount + 2*capCount with
\* sideCount = sectors (4*sectors with edge loops), bandCount = 4*sectors
\* iff caps and edge loops, capCount = 0 / 1 / sectors/2 / sectors for the
\* effective style NONE / NGON / QUAD / TRI; QUAD without edge loops has
\* 2*sectors faces over 2*sectors + 2 positions.
EffectiveCapStyle ==
    LET type == self.cap_face_type IN
    IF type = "NONE" THEN "NONE"
    ELSE IF type = "QUAD" /\ ~(sectors < 5 \/ sectors % 2 # 0) THEN "QUAD"
    ELSE IF type = "TRI" /\ ~(sectors < 4) THEN "TRI"
    ELSE "NGON"

C6_FaceCount ==
    LET style == EffectiveCapStyle
        sideCount == IF cap.use_edge_loops THEN 4 * sectors ELSE sectors
        bandCount == Add(style # "NONE" /\ cap.use_edge_loops, 4 * sectors)
        capCount  == CASE style = "NONE" -> 0
                       [] style = "NGON" -> 1
                       [] style = "QUAD" -> sectors \div 2
                       [] OTHER -> sectors
    IN FacesAllocated =>
         /\ len_loop_idcs = sideCount + bandCount + 2 * capCount
         /\ DOMAIN v_idcs = 0 .. (len_loop_idcs - 1)
         /\ (style = "QUAD" /\ ~cap.use_edge_loops) =>
               len_loop_idcs = 2 * sectors /\ len_vs = 2 * sectors + 2

\* C7 (as stated): a request with sectors < 3, radius <= 0 or depth <= 0
\* is rejected before any computation: no buffer is allocated or filled
\* and no mesh is produced.
InvalidRequest ==
    \/ req.sectors < 3
    \/ req.radius_btm <= 0
    \/ req.radius_top <= 0
    \/ req.depth <= 0

NoLoops == [cap EXCEPT !.use_edge_loops = FALSE]

RingWritten(off, name) ==
    \A i \in 0 .. (sectors - 1) : vs[off + i] = << name, i >>

C8_EdgeLoopTopology ==
    /\ Unpacked =>
         (cap.use_edge_loops <=>
            (self.edge_loop_fac > 0 /\ self.edge_loop_fac < FacDen))
    /\ (FacesAllocated /\ cap.use_edge_loops) =>
         /\ len_vs > PlanLenVs(sectors, NoLoops)
         /\ len_vs >= PlanLenVs(sectors, NoLoops)
                      + 3 * sectors + Add(cap.use_caps, 4 * sectors)
         /\ len_loop_idcs > PlanLenLoopIdcs(sectors, NoLoops)
         /\ len_loop_idcs = PlanLenLoopIdcs(sectors, NoLoops)
                            + 3 * sectors + Add(cap.use_caps, 4 * sectors)
         /\ RingWritten(v_idx.side_lwr_ctrl, "side_lwr_ctrl")
         /\ RingWritten(v_idx.mid, "mid")
         /\ RingWritten(v_idx.side_upp_ctrl, "side_upp_ctrl")
         /\ cap.use_caps =>
              /\ RingWritten(v_idx.btm_fan, "btm_fan")
              /\ RingWritten(v_idx.btm_ctrl, "btm_ctrl")
              /\ RingWritten(v_idx.top_ctrl, "top_ctrl")
              /\ RingWritten(v_idx.top_fan, "top_fan")
    /\ (FacesAllocated /\ ~cap.use_edge_loops) =>
         /\ len_vs = PlanLenVs(sectors, NoLoops)
         /\ len_loop_idcs = PlanLenLoopIdcs(sectors, NoLoops)
         /\ \A p \in DOMAIN vs :
               vs[p][1] \in {"btm_spoke", "btm_edge", "top_edge", "top_spoke"}

C8_Witness ==
    /\ pc = "done"
    /\ cap.use_edge_loops
    /\ cap.use_caps
    /\ self.edge_loop_fac = 1
    /\ len_loop_idcs = PlanLenLoopIdcs(sectors, NoLoops) + 7 * sectors

\* C9: with UV generation the UV face buffer has the length of the face
\* buffer and at every position p the UV face has as many corners as the
\* 3D face, belongs to the same group and follows the same per-corner
\* ring/sample pattern, so assigning UV corner i to loop i of face p
\* never indexes past the UV face.
\* The slots of the side strips: they end where the top cap bands begin,
\* or at the top cap block when there are no bands.
SideSlot(p) ==
    /\ loop_idx.side_lwr_ctrl <= p
    /\ p < (IF cap.use_edge_loops /\ cap.use_caps
            THEN loop_idx.top_ctrl ELSE loop_idx.top_fan)

\* The UV ring that stands for a vertex ring on a side strip; cap fans and
\* cap bands use the ring of the same name.
SideUvRing(ring) ==
    CASE ring = "btm_edge" -> "btm_strip"
      [] ring = "top_edge" -> "top_strip"
      [] ring = "mid" -> "mid_strip"
      [] OTHER -> ring

\* Without edge loops the cap faces address the edge ring through the
\* fan offset, in both spaces.
CornerMatches(p, v, uv) ==
    /\ uv[2] % sectors = v[2]
    /\ uv[1] = (IF SideSlot(p) THEN SideUvRing(v[1]) ELSE v[1])

UvFacesAllocated == self.calc_uvs /\ pc \in {"assign_uvs", "finish", "done"}

C9_UvFacesMatch ==
    /\ UvFacesAllocated =>
         /\ DOMAIN vt_idcs = DOMAIN v_idcs
         /\ \A p \in DOMAIN v_idcs :
              /\ Len(vt_idcs[p]) = Len(v_idcs[p])
              /\ \A i \in 1 .. Len(v_idcs[p]) :
                    /\ PyIdxOk(len_vts, vt_idcs[p][i])
                    /\ CornerMatches(p, vs[v_idcs[p][i]],
                                     vts[PyIdx(len_vts, vt_idcs[p][i])])
         /\ \A f \in 1 .. Len(mesh.faces) :
              /\ mesh.faces[f] = v_idcs[f - 1]
              /\ Len(mesh.faces[f]) <= Len(vt_idcs[f - 1])
    /\ (self.calc_uvs /\ pc \in {"finish", "done"}) =>
         /\ Len(loop_uvs) = len_loop_idcs
         /\ \A f \in 1 .. Len(loop_uvs) :
              \A i \in 1 .. Len(mesh.faces[f]) :
                 CornerMatches(f - 1, vs[mesh.faces[f][i]], loop_uvs[f][i])

C9_Witness ==
    /\ pc = "done"
    /\ self.calc_uvs
    /\ cap.cap_is_ngon /\ cap.use_edge_loops
    /\ sectors >= 5
    /\ Len(loop_uvs) = len_loop_idcs
    /\ Len(loop_uvs[1]) = sectors

\* C10: in the emitted mesh no directed edge between consecutive corners
\* occurs in two faces; with caps every directed edge has its reverse in
\* exactly one other face; with cap style NONE the directed edges without
\* a reverse are exactly the sectors rim edges of the bottom edge ring and
\* the sectors rim edges of the top edge ring.
FaceEdges(f) == {<< f[i], f[(i % Len(f)) + 1] >> : i \in 1 .. Len(f)}

MeshEdges == UNION {FaceEdges(mesh.faces[p]) : p \in 1 .. Len(mesh.faces)}

\* One element per corner of the mesh.
Corners ==
    UNION {{p} \X (1 .. Len(mesh.faces[p])) : p \in 1 .. Len(mesh.faces)}

Reversed(e) == << e[2], e[1] >>

RimEdges ==
    {<< v_idx.btm_edge + i, v_idx.btm_edge + ((i + 1) % sectors) >> :
        i \in 0 .. (sectors - 1)}
    \cup
    {<< v_idx.top_edge + ((i + 1) % sectors), v_idx.top_edge + i >> :
        i \in 0 .. (sectors - 1)}

C10_ClosedConsistent ==
    (pc = "done") =>
        /\ mesh.made
        /\ Len(mesh.faces) = len_loop_idcs
        \* every corner contributes a distinct directed edge
        /\ \A p \in 1 .. Len(mesh.faces) :
              Cardinality(FaceEdges(mesh.faces[p])) = Len(mesh.faces[p])
        /\ Cardinality(MeshEdges) = Cardinality(Corners)
        \* the reverse of an edge, unique by the above, is in another face
        /\ \A p \in 1 .. Len(mesh.faces) :
              \A e \in FaceEdges(mesh.faces[p]) :
                 Reversed(e) \notin FaceEdges(mesh.faces[p])
        /\ cap.use_caps => \A e \in MeshEdges : Reversed(e) \in MeshEdges
        /\ cap.cap_is_none =>
              /\ {e \in MeshEdges : Reversed(e) \notin MeshEdges} = RimEdges
              /\ Cardinality(RimEdges) = 2 * sectors

C10_Witness ==
    /\ pc = "done"
    /\ cap.cap_is_tri /\ cap.use_edge_loops
    /\ Len(mesh.faces) = 10 * sectors
    /\ \A e \in MeshEdges : Reversed(e) \in MeshEdges

\* C11: the position buffer is fully populated before assembly: every slot
\* of vs has been assigned by the geometry synthesizer (none keeps its
\* allocation placeholder), and every vertex index is referenced by at
\* least one face.
VsFilled == pc \notin {"unpack", "plan_vs", "fill_vs"}

ReferencedVerts == UNION {FaceIndices(v_idcs[p]) : p \in DOMAIN v_idcs}

C11_FullyPopulated ==
    /\ VsFilled => \A p \in DOMAIN vs : vs[p] # ZeroVec
    /\ FacesFilled => \A p \in DOMAIN vs : p \in ReferencedVerts

\* C12: the face groups (bottom cap, bottom-mid band, bottom-ctrl band,
\* side strips, top-ctrl band, top-mid band, top cap) occupy pairwise
\* disjoint contiguous slot ranges, each as long as the number of faces
\* written for the group, whose union is [0, len_loop_idcs): every slot is
\* written exactly once and none keeps its placeholder.
FaceWrites ==
    CapFaceWrites(sectors, cap, loop_idx, v_idx)
    \o SideFaceWrites(sectors, cap, loop_idx, v_idx)

\* The group of face write q: the cap (bottom or top) for the writes of
\* the cap loop, then the band or strip number of the side loops.
FaceGroupOf(q) ==
    LET nc == Len(CapFaceWrites(sectors, cap, loop_idx, v_idx))
        nb == IF cap.use_edge_loops /\ cap.use_caps THEN 4 * sectors ELSE 0
    IN IF q <= nc
       THEN << "cap", IF cap.cap_is_tri \/ cap.cap_is_quad
                      THEN LoopC(q, 2) ELSE q >>
       ELSE IF q <= nc + nb THEN << "band", LoopC(q - nc, 4) >>
       ELSE IF cap.use_edge_loops THEN << "side", LoopC(q - nc - nb, 4) >>
       ELSE << "side", 1 >>

FaceGroups == {FaceGroupOf(q) : q \in 1 .. Len(FaceWrites)}

GroupSlots(g) ==
    {FaceWrites[q][1] : q \in {r \in 1 .. Len(FaceWrites) : FaceGroupOf(r) = g}}

GroupSize(g) ==
    Cardinality({r \in 1 .. Len(FaceWrites) : FaceGroupOf(r) = g})

Contiguous(S) ==
    S # {} /\ \E lo \in S : S = lo .. (lo + Cardinality(S) - 1)

C12_FaceSlotsPartition ==
    /\ FacesAllocated =>
         /\ \A g \in FaceGroups :
               /\ Contiguous(GroupSlots(g))
               /\ Cardinality(GroupSlots(g)) = GroupSize(g)
         /\ \A g, h \in FaceGroups :
               g # h => GroupSlots(g) \cap GroupSlots(h) = {}
         /\ UNION {GroupSlots(g) : g \in FaceGroups}
               = 0 .. (len_loop_idcs - 1)
    /\ FacesFilled =>
         \A p \in DOMAIN v_idcs : v_idcs[p] # ZeroFace

\* C13: every side quad is (lo + i, lo + (i+1) mod sectors,
\* hi + (i+1) mod sectors, hi + i) for two vertically adjacent rings:
\* (bottom edge, top edge) without edge loops; with edge loops, in face
\* buffer order, (bottom edge, lower ctrl), (lower ctrl, mid),
\* (mid, upper ctrl), (upper ctrl, top edge).
SideQuad(lo, hi, i) ==
    << lo + i, lo + ((i + 1) % sectors),
       hi + ((i + 1) % sectors), hi + i >>

StripIs(base, lo, hi) ==
    \A i \in 0 .. (sectors - 1) : v_idcs[base + i] = SideQuad(lo, hi, i)

C13_SideStrips ==
    FacesFilled =>
        IF cap.use_edge_loops
        THEN /\ loop_idx.side_lwr = loop_idx.side_lwr_ctrl + sectors
             /\ loop_idx.side_upp = loop_idx.side_lwr + sectors
             /\ loop_idx.side_upp_ctrl = loop_idx.side_upp + sectors
             /\ StripIs(loop_idx.side_lwr_ctrl,
                        v_idx.btm_edge, v_idx.side_lwr_ctrl)
             /\ StripIs(loop_idx.side_lwr, v_idx.side_lwr_ctrl, v_idx.mid)
             /\ StripIs(loop_idx.side_upp, v_idx.mid, v_idx.side_upp_ctrl)
             /\ StripIs(loop_idx.side_upp_ctrl,
                        v_idx.side_upp_ctrl, v_idx.top_edge)
             /\ v_idx.side_lwr_ctrl = v_idx.btm_edge + sectors
             /\ v_idx.mid = v_idx.side_lwr_ctrl + sectors
             /\ v_idx.side_upp_ctrl = v_idx.mid + sectors
             /\ v_idx.top_edge = v_idx.side_upp_ctrl + sectors
        ELSE /\ StripIs(loop_idx.side_lwr_ctrl, v_idx.btm_edge, v_idx.top_edge)
             /\ v_idx.top_edge = v_idx.btm_edge + sectors

C13_Witness ==
    /\ pc = "done"
    /\ cap.use_edge_loops
    /\ sectors = 5
    /\ v_idcs[loop_idx.side_upp + 4]
          = << v_idx.mid + 4, v_idx.mid, v_idx.side_upp_ctrl,
               v_idx.side_upp_ctrl + 4 >>

\* C14: top and bottom caps have opposite winding: a TRI cap has bottom
\* face i = (spoke, fan[i+1], fan[i]) and top face i = (spoke, fan[i],
\* fan[i+1]); a QUAD bottom face lists its three fan samples in the
\* reverse order of the top face; an NGON cap is one face listing every
\* index of its ring once, the top in natural order 0 .. sectors-1 and
\* the bottom in the reverse cyclic order.
Reverse(f) == [n \in 1 .. Len(f) |-> f[Len(f) + 1 - n]]

\* f without its first corner.
Rest(f) == [n \in 1 .. (Len(f) - 1) |-> f[n + 1]]

\* g is f read backwards, starting from some corner.
ReverseCyclic(f, g) ==
    /\ Len(f) = Len(g)
    /\ \E r \in 0 .. (Len(f) - 1) :
          \A n \in 1 .. Len(f) :
             g[n] = f[((r + Len(f) - n) % Len(f)) + 1]

CapFacePair(i) ==
    << v_idcs[loop_idx.btm_fan + i], v_idcs[loop_idx.top_fan + i] >>

TriPairOk(i) ==
    LET j == (i + 1) % sectors
        b == CapFacePair(i)[1]
        u == CapFacePair(i)[2]
    IN /\ b = << v_idx.btm_spoke, v_idx.btm_fan + j, v_idx.btm_fan + i >>
       /\ u = << v_idx.top_spoke, v_idx.top_fan + i, v_idx.top_fan + j >>

QuadPairOk(h) ==
    LET b == CapFacePair(h)[1]
        u == CapFacePair(h)[2]
    IN /\ Len(b) = 4 /\ Len(u) = 4
       /\ b[1] = v_idx.btm_spoke /\ u[1] = v_idx.top_spoke
       /\ [n \in 1 .. 3 |-> Rest(b)[n] - v_idx.btm_fan]
             = Reverse([n \in 1 .. 3 |-> Rest(u)[n] - v_idx.top_fan])

NgonPairOk ==
    LET b == CapFacePair(0)[1]
        u == CapFacePair(0)[2]
    IN /\ u = [n \in 1 .. sectors |-> v_idx.top_fan + (n - 1)]
       /\ Len(b) = sectors
       /\ FaceIndices(b) = v_idx.btm_fan .. (v_idx.btm_fan + sectors - 1)
       /\ ReverseCyclic([n \in 1 .. sectors |-> u[n] - v_idx.top_fan],
                        [n \in 1 .. sectors |-> b[n] - v_idx.btm_fan])

\* The triangles written before a failed write follow the pattern too.
TriWrittenOk(i) ==
    LET j  == (i + 1) % sectors
        bs == loop_idx.btm_fan + i
        us == loop_idx.top_fan + i
    IN /\ (bs \in DOMAIN v_idcs /\ v_idcs[bs] # ZeroFace) =>
             v_idcs[bs] = << v_idx.btm_spoke, v_idx.btm_fan + j,
                             v_idx.btm_fan + i >>
       /\ (us \in DOMAIN v_idcs /\ v_idcs[us] # ZeroFace) =>
             v_idcs[us] = << v_idx.top_spoke, v_idx.top_fan + i,
                             v_idx.top_fan + j >>

C14_OppositeWinding ==
    /\ FacesFilled =>
        /\ cap.cap_is_tri => \A i \in 0 .. (sectors - 1) : TriPairOk(i)
        /\ (~cap.cap_is_tri /\ cap.cap_is_quad) =>
              \A h \in 0 .. ((sectors \div 2) - 1) : QuadPairOk(h)
        /\ (~cap.cap_is_tri /\ ~cap.cap_is_quad /\ cap.cap_is_ngon) =>
              NgonPairOk
    /\ (pc = "error" /\ cap.cap_is_tri) =>
          \A i \in 0 .. (sectors - 1) : TriWrittenOk(i)

C14_Witness ==
    /\ pc = "done"
    /\ cap.cap_is_ngon
    /\ sectors = 5
    /\ v_idcs[loop_idx.btm_fan]
          = << v_idx.btm_fan, v_idx.btm_fan + 4, v_idx.btm_fan + 3,
               v_idx.btm_fan + 2, v_idx.btm_fan + 1 >>
    /\ v_idcs[loop_idx.top_fan]
          = << v_idx.top_fan, v_idx.top_fan + 1, v_idx.top_fan + 2,
               v_idx.top_fan + 3, v_idx.top_fan + 4 >>

\* C15: after normalisation exactly one of cap_is_none, cap_is_ngon,
\* cap_is_quad, cap_is_tri holds, so the face plan (ngon tested first) and
\* the face synthesizer (tri tested first) select the same cap style, and
\* use_center_spoke holds only for TRI or QUAD and never with NGON.
FlagCount ==
    Add(cap.cap_is_none, 1) + Add(cap.cap_is_ngon, 1)
    + Add(cap.cap_is_quad, 1) + Add(cap.cap_is_tri, 1)

PlannerStyle ==
    IF cap.cap_is_ngon THEN "NGON"
    ELSE IF cap.cap_is_quad THEN "QUAD"
    ELSE IF cap.cap_is_tri THEN "TRI"
    ELSE "NONE"

SynthesizerStyle ==
    IF cap.cap_is_tri THEN "TRI"
    ELSE IF cap.cap_is_quad THEN "QUAD"
    ELSE IF cap.cap_is_ngon THEN "NGON"
    ELSE "NONE"

C15_ExclusiveFlags ==
    Unpacked =>
        /\ FlagCount = 1
        /\ PlannerStyle = SynthesizerStyle
        /\ cap.use_center_spoke <=> (cap.cap_is_tri \/ cap.cap_is_quad)
        /\ ~(cap.use_center_spoke /\ cap.cap_is_ngon)

\* C16: with UV generation every index stored in the UV face buffer is in
\* [0, len_vts); no UV face is built from a group offset that still holds
\* the -1 sentinel; the side strip UV faces use columns i and i+1 <=
\* sectors of their (sectors+1)-wide rings without wrapping; the UV group
\* ranges (side strips, cap rings, spokes) are pairwise disjoint and
\* together cover the whole UV buffer.
UvGroupNames == DOMAIN NoVtIdx

StripNames ==
    {"btm_strip", "top_strip", "side_lwr_ctrl", "mid_strip", "side_upp_ctrl"}

\* The UV offsets with every sentinel replaced by a value so low that a
\* face built from it would hold a different index.
Poisoned ==
    [g \in UvGroupNames |->
        IF vt_idx[g] = -1 THEN 0 - (4 * len_vts + 4) ELSE vt_idx[g]]

UvWrittenGroups == {vts[p][1] : p \in DOMAIN vts}

UvGroupWidth(g) ==
    IF g \in {"btm_spoke", "top_spoke"} THEN 1
    ELSE IF g \in StripNames THEN sectors + 1
    ELSE sectors

UvGroupRange(g) == vt_idx[g] .. (vt_idx[g] + UvGroupWidth(g) - 1)

PoisonedFaceWrites == VtFaceWrites(sectors, cap, loop_idx, Poisoned)

C16_UvIndicesValid ==
    /\ UvFacesAllocated =>
         /\ \A p \in DOMAIN vt_idcs :
               \A n \in 1 .. Len(vt_idcs[p]) :
                  vt_idcs[p][n] >= 0 /\ vt_idcs[p][n] < len_vts
         /\ \A q \in 1 .. Len(PoisonedFaceWrites) :
               vt_idcs[PoisonedFaceWrites[q][1]] = PoisonedFaceWrites[q][2]
         /\ \A p \in DOMAIN vt_idcs :
               SideSlot(p) =>
                  LET i    == (p - loop_idx.side_lwr_ctrl) % sectors
                      f    == vt_idcs[p]
                      c(n) == vts[f[n]]
                  IN /\ Len(f) = 4
                     /\ \A n \in 1 .. 4 : c(n)[1] \in StripNames
                     /\ c(1)[2] = i /\ c(4)[2] = i
                     /\ c(2)[2] = i + 1 /\ c(3)[2] = i + 1
                     /\ i + 1 <= sectors
                     /\ f[2] = f[1] + 1 /\ f[3] = f[4] + 1
    /\ (self.calc_uvs /\ pc \in {"fill_vt_idcs", "assign_uvs", "finish", "done"}) =>
         \* every slot was written, by the group whose range holds it
         /\ \A p \in DOMAIN vts :
               /\ vts[p] # ZeroUv
               /\ vt_idx[vts[p][1]] >= 0
               /\ p \in UvGroupRange(vts[p][1])
               /\ vt_idx[vts[p][1]] + vts[p][2] = p
         /\ \A g, h \in UvWrittenGroups :
               g # h => UvGroupRange(g) \cap UvGroupRange(h) = {}
         /\ UNION {UvGroupRange(g) : g \in UvWrittenGroups}
               = 0 .. (len_vts - 1)
         \* and exactly once
         /\ Len(VtWrites(sectors, cap, vt_idx)) = len_vts

C16_Witness ==
    /\ pc = "done"
    /\ self.calc_uvs
    /\ cap.use_caps /\ ~cap.use_edge_loops /\ cap.use_center_spoke
    /\ vt_idx.btm_ctrl = -1 /\ vt_idx.mid_strip = -1
    /\ vt_idcs[loop_idx.top_fan - 1]
          = << vt_idx.btm_strip + sectors - 1, vt_idx.btm_strip + sectors,
               vt_idx.top_strip + sectors, vt_idx.top_strip + sectors - 1 >>
    /\ (len_vts - 1) \in FaceIndices(vt_idcs[len_loop_idcs - 1])
====
